---- MODULE Spec2Model ----
(***************************************************************************)
(* inline-compare: checksum two directories, reconcile the two checksum    *)
(* stores into diff.csv, then resolve every record of diff.csv into an     *)
(* artifact under diffs/ (a verbatim copy or a unified diff).              *)
(*                                                                         *)
(* File names are byte strings (sequences of byte values).  A file's       *)
(* content is a sequence of lines; each line is a token whose byte length  *)
(* is LineBytes, so that sizes around the megabyte threshold are           *)
(* representable.  A digest is a positive number; 0 is the empty string.   *)
(***************************************************************************)
EXTENDS Integers, Sequences, FiniteSets, TLC

VARIABLES
    dirs,        \* dirs[s][n]: the entry named n at the top level of directory s
    baseNames,   \* baseNames[s]: filepath.Base of directory s
    cacheFs,     \* <base>-checksums.csv files of the output directory: name -> rows
    diffCsv,     \* rows of diff.csv (header first); <<>> while it does not exist
    diffs,       \* files of diffs/: artifact name -> bytes
    useCache,    \* flag -use-cache of the current invocation
    sizeLimit,   \* flag -size (MB)
    lineLimit,   \* flag -lines
    ioFaulty,    \* whether the environment may fail an I/O call at will
    pc,          \* position of main
    checksums1,  \* main's checksums1
    checksums2,  \* main's checksums2
    records,     \* compareFilesInCSV's records[1:]
    idx,         \* index of the next record of the loop of compareFilesInCSV
    diffCount,   \* compareFilesInCSV's diffCount
    summary,     \* the count printed by the summary line, -1 while not printed
    log,         \* history: the stages of this invocation, in order, with their result
    outcomes,    \* history: one entry per record resolved by this invocation
    hashed,      \* history: the <<side, name>> source files this invocation read to hash
    diffsAtStart,\* history: diffs/ as this invocation found it
    cacheAtStart,\* history: the checksum csv files as this invocation found them
    prev,        \* history: the stores of the previous invocation
    edited,      \* history: a source directory changed since this invocation started
    runs,        \* invocations started so far
    edits        \* directory edits so far

vars == <<dirs, baseNames, cacheFs, diffCsv, diffs, useCache, sizeLimit, lineLimit,
          ioFaulty, pc, checksums1, checksums2, records, idx, diffCount, summary,
          log, outcomes, hashed, diffsAtStart, cacheAtStart, prev, edited, runs, edits>>

(* Bounds of the model. *)
MaxRuns == 2
MaxEdits == 1

---------------------------------------------------------------------------
(* File names and byte-wise order. *)

NameA == <<97>>
DiffSuffix == <<46, 100, 105, 102, 102>>
NameADiff == NameA \o DiffSuffix
NameB == <<98>>
FileNames == {NameA, NameADiff, NameB}

Min(a, b) == IF a < b THEN a ELSE b

\* Go's string < : the first differing byte decides, a proper prefix is smaller.
LexLess(s, t) ==
    \E i \in 1..(Min(Len(s), Len(t)) + 1) :
        /\ \A j \in 1..(i - 1) : s[j] = t[j]
        /\ IF i > Len(s) THEN i <= Len(t)
           ELSE i <= Len(t) /\ s[i] < t[i]

RECURSIVE Insert(_, _)
Insert(x, s) ==
    IF s = <<>> THEN <<x>>
    ELSE IF LexLess(Head(s), x) THEN <<Head(s)>> \o Insert(x, Tail(s))
    ELSE <<x>> \o s

\* A reconciler that forgets to sort.
NoSort(s) == s

\* sort.Strings
RECURSIVE SortStrings(_)
SortStrings(s) ==
    IF s = <<>> THEN <<>> ELSE Insert(Head(s), SortStrings(Tail(s)))

\* The orders in which a Go map (or a directory) may enumerate a set of keys.
Enumerations(S) ==
    {q \in [1..Cardinality(S) -> S] : \A i, j \in 1..Cardinality(S) : i # j => q[i] # q[j]}

---------------------------------------------------------------------------
(* File contents, sizes and digests. *)

MB == 1024 * 1024

\* Lines 1 and 2 are two bytes long ("a\n", "b\n"); lines 3 and 4 are two
\* different lines of MB - 2 bytes.
LineBytes(t) == IF t <= 2 THEN 2 ELSE MB - 2

RECURSIVE FileSize(_)
FileSize(c) == IF c = <<>> THEN 0 ELSE LineBytes(Head(c)) + FileSize(Tail(c))

RECURSIVE HashFold(_, _)
HashFold(c, h) == IF c = <<>> THEN h ELSE HashFold(Tail(c), h * 5 + Head(c))

\* The hex digest of the whole content: never the empty string (0).
fileChecksum(c) == 1 + HashFold(c, 0)

NoEntry == [kind |-> "none", content |-> <<>>]
DirEntry == [kind |-> "dir", content |-> <<>>]
File(c) == [kind |-> "file", content |-> c]

Small1 == <<1>>
Small2 == <<2>>
AtLimit1 == <<3, 1>>
AtLimit2 == <<4, 1>>
Large1 == <<3, 1, 1>>
Large2 == <<4, 1, 1>>

---------------------------------------------------------------------------
(* Files of the output directory. *)

WriteFile(fs, name, data) ==
    [x \in DOMAIN fs \cup {name} |-> IF x = name THEN data ELSE fs[x]]

RemoveFile(fs, name) == [x \in DOMAIN fs \ {name} |-> fs[x]]

NoFiles == <<>>

CsvFile(side) == baseNames[side]

\* A field the csv reader rejects (a bare quote).
BadQuote == 0 - 1

\* csv.Reader.ReadAll: a bare quote, or a row whose field count differs from
\* the first row's, is an error.
ParseError(rows) ==
    \E i \in 1..Len(rows) :
        \/ Len(rows[i]) # Len(rows[1])
        \/ \E j \in 2..Len(rows[i]) : rows[i][j] = BadQuote

\* for _, record := range records { checksums[record[0]] = record[1] }
LoadRecords(rows) ==
    LET keys == {rows[i][1] : i \in 1..Len(rows)}
        last(k) == CHOOSE i \in 1..Len(rows) :
                       rows[i][1] = k /\ \A j \in (i + 1)..Len(rows) : rows[j][1] # k
    IN  [k \in keys |-> rows[last(k)][2]]

\* record[1] of a row with a single field is out of range.
IndexPanics(rows) == \E i \in 1..Len(rows) : Len(rows[i]) < 2

\* A Go map read: the zero value "" for a missing key.
Lookup(store, name) == IF name \in DOMAIN store THEN store[name] ELSE 0

\* ioutil.ReadDir returns the entries sorted by name; directories are skipped.
ReadDir(dir) ==
    LET S == {n \in DOMAIN dir : dir[n].kind = "file"}
    IN  SortStrings(CHOOSE q \in Enumerations(S) : TRUE)

---------------------------------------------------------------------------
(* main: what follows a stage. *)

\* injected: the failure is an I/O fault of the environment.
Event(stage, name, ok, injected) ==
    [stage |-> stage, name |-> name, ok |-> ok, injected |-> injected]

NextStage(stage) ==
    CASE stage = "build1" -> "build2"
      [] stage = "build2" -> "reconcile"
      [] stage = "reconcile" -> "compare"
      [] stage = "compare" -> "resolve"
      [] stage = "resolve" -> "resolve"
      [] OTHER -> "done"

\* A main that prints the error and carries on.
MainIgnoresError(stage, status) == NextStage(stage)

\* if err != nil { fmt.Printf(...); return }; a panic ends the process.
MainAfter(stage, status) == IF status = "ok" THEN NextStage(stage) ELSE status

NoFault == [kind |-> "none", at |-> 0]

---------------------------------------------------------------------------
(* generateChecksums *)

ToStore(rows) == LoadRecords(rows)

\* The part of generateChecksums after the cache branch: hash every
\* non-directory entry and append its row to the csv file.  A fault
\* "file" at k fails the k-th file; "readdir" fails the listing.
Regenerate(side, base, fault) ==
    LET files == ReadDir(dirs[side])
        csv == CsvFile(side)
        k == CASE fault.kind = "file" -> fault.at - 1
               [] fault.kind = "readdir" -> 0
               [] OTHER -> Len(files)
        newRows == [i \in 1..k |->
                       <<files[i], fileChecksum(dirs[side][files[i]].content)>>]
        old == IF csv \in DOMAIN base THEN base[csv] ELSE <<>>
    IN  [status |-> IF fault.kind = "none" THEN "ok" ELSE "failed",
         store |-> ToStore(newRows),
         cache |-> IF k = 0 THEN base ELSE WriteFile(base, csv, old \o newRows),
         read |-> {files[i] : i \in 1..Min(Len(files),
                                       IF fault.kind = "file" THEN k + 1 ELSE k)}]

generateChecksums(side, fault) ==
    LET csv == CsvFile(side)
    IN  IF useCache /\ csv \in DOMAIN cacheFs /\ ~ParseError(cacheFs[csv])
        THEN IF IndexPanics(cacheFs[csv])
             THEN [status |-> "crashed", store |-> <<>>, cache |-> cacheFs, read |-> {}]
             ELSE [status |-> "ok", store |-> LoadRecords(cacheFs[csv]),
                   cache |-> cacheFs, read |-> {}]
        ELSE IF fault.kind = "remove"
        THEN [status |-> "failed", store |-> <<>>, cache |-> cacheFs, read |-> {}]
        ELSE Regenerate(side, IF useCache THEN cacheFs ELSE RemoveFile(cacheFs, csv),
                        fault)

BuildFaults(side) ==
    {NoFault} \cup
    (IF ioFaulty
     THEN {[kind |-> "readdir", at |-> 0]}
          \cup {[kind |-> "file", at |-> k] : k \in 1..Len(ReadDir(dirs[side]))}
          \cup (IF useCache THEN {} ELSE {[kind |-> "remove", at |-> 0]})
     ELSE {})

GenerateChecksums1 ==
    /\ pc = "build1"
    /\ \E fault \in BuildFaults(1) :
          LET r == generateChecksums(1, fault)
          IN  /\ cacheFs' = r.cache
              /\ checksums1' = (IF r.status = "ok" THEN r.store ELSE <<>>)
              /\ hashed' = hashed \cup {<<1, n>> : n \in r.read}
              /\ log' = Append(log, Event("build1", <<>>, r.status = "ok", r.status = "failed"))
              /\ pc' = MainAfter("build1", r.status)
    /\ UNCHANGED <<dirs, baseNames, diffCsv, diffs, useCache, sizeLimit, lineLimit,
                   ioFaulty, checksums2, records, idx, diffCount, summary, outcomes,
                   diffsAtStart, cacheAtStart, prev, edited, runs, edits>>

GenerateChecksums2 ==
    /\ pc = "build2"
    /\ \E fault \in BuildFaults(2) :
          LET r == generateChecksums(2, fault)
          IN  /\ cacheFs' = r.cache
              /\ checksums2' = (IF r.status = "ok" THEN r.store ELSE <<>>)
              /\ hashed' = hashed \cup {<<2, n>> : n \in r.read}
              /\ log' = Append(log, Event("build2", <<>>, r.status = "ok", r.status = "failed"))
              /\ pc' = MainAfter("build2", r.status)
    /\ UNCHANGED <<dirs, baseNames, diffCsv, diffs, useCache, sizeLimit, lineLimit,
                   ioFaulty, checksums1, records, idx, diffCount, summary, outcomes,
                   diffsAtStart, cacheAtStart, prev, edited, runs, edits>>

---------------------------------------------------------------------------
(* generateCombinedCSV *)

Header == <<"File Name", "Checksum 1", "Checksum 2">>

\* A reconciler that only compares files present on both sides.
DiffersWhenBothPresent(c1, c2) == c1 # c2 /\ c1 # 0 /\ c2 # 0

\* A reconciler that lists every file of the first directory.
DiffersOrPresent(c1, c2) == c1 # c2 \/ c1 # 0

\* if checksum1 != checksum2
Differs(c1, c2) == c1 # c2

\* The rows written after the header, given the order in which the map of
\* all file names was enumerated.
CombinedRows(store1, store2, order) ==
    LET sortedFileNames == SortStrings(order)
        keep == SelectSeq(sortedFileNames,
                          LAMBDA n : Differs(Lookup(store1, n), Lookup(store2, n)))
    IN  [i \in 1..Len(keep) |->
            <<keep[i], Lookup(store1, keep[i]), Lookup(store2, keep[i])>>]

GenerateCombinedCSV ==
    /\ pc = "reconcile"
    /\ \E order \in Enumerations(DOMAIN checksums1 \cup DOMAIN checksums2) :
          LET rows == CombinedRows(checksums1, checksums2, order)
          IN  \E fault \in {NoFault} \cup
                           (IF ioFaulty
                            THEN {[kind |-> "create", at |-> 0]}
                                 \cup {[kind |-> "write", at |-> j] : j \in 1..Len(rows)}
                            ELSE {}) :
                 /\ diffCsv' = (CASE fault.kind = "none" -> <<Header>> \o rows
                                  [] fault.kind = "create" -> diffCsv
                                  [] OTHER -> <<Header>> \o SubSeq(rows, 1, fault.at - 1))
                 /\ log' = Append(log, Event("reconcile", <<>>, fault.kind = "none", fault.kind # "none"))
                 /\ pc' = MainAfter("reconcile",
                                    IF fault.kind = "none" THEN "ok" ELSE "failed")
    /\ UNCHANGED <<dirs, baseNames, cacheFs, diffs, useCache, sizeLimit, lineLimit,
                   ioFaulty, checksums1, checksums2, records, idx, diffCount, summary,
                   outcomes, hashed, diffsAtStart, cacheAtStart, prev, edited, runs, edits>>

---------------------------------------------------------------------------
(* compareFilesInCSV, copyFile, generateDiff *)

DiffFileName(name) == name \o DiffSuffix

\* tail -n <n>
readLastLines(c, n) == IF n >= Len(c) THEN c ELSE SubSeq(c, Len(c) - n + 1, Len(c))

\* diff -u: no output for equal inputs; otherwise a header line (0), the
\* lines of the first input marked removed (negated) and those of the second.
UnifiedDiff(w1, w2) ==
    IF w1 = w2 THEN <<>> ELSE <<0>> \o [i \in 1..Len(w1) |-> 0 - w1[i]] \o w2

\* A size test that wants both files over the limit.
BothOverLimit(size1, size2, limit) == size1 > limit /\ size2 > limit

\* if info1.Size() > int64(sizeLimit) || info2.Size() > int64(sizeLimit)
UseTail(size1, size2, limit) == size1 > limit \/ size2 > limit

\* A branch that copies the side that is missing.
BranchSwapped(exists1, exists2) ==
    IF ~exists1 THEN "CopiedFromA" ELSE IF ~exists2 THEN "CopiedFromB" ELSE "Diff"

\* if os.IsNotExist(err1) {...} else if os.IsNotExist(err2) {...} else {...}
Branch(exists1, exists2) ==
    IF ~exists1 THEN "CopiedFromB" ELSE IF ~exists2 THEN "CopiedFromA" ELSE "Diff"

\* copyFile: os.Open(src), os.Create(dst), io.Copy.  Reading a directory
\* fails after dst was created.
copyFile(src, dst, fs, fault) ==
    IF src.kind = "none" \/ fault.kind # "none"
    THEN [status |-> "failed", diffs |-> fs, written |-> <<>>]
    ELSE IF src.kind = "dir"
    THEN [status |-> "failed", diffs |-> WriteFile(fs, dst, <<>>), written |-> <<>>]
    ELSE [status |-> "ok", diffs |-> WriteFile(fs, dst, src.content),
          written |-> src.content]

\* generateDiff: the old diff file is removed first; reading a directory fails.
generateDiff(file1, file2, diffFile, fs, limitBytes, lines, fault) ==
    LET base == RemoveFile(fs, diffFile)
        tail == UseTail(FileSize(file1.content), FileSize(file2.content), limitBytes)
        content1 == IF tail THEN readLastLines(file1.content, lines) ELSE file1.content
        content2 == IF tail THEN readLastLines(file2.content, lines) ELSE file2.content
        output == UnifiedDiff(content1, content2)
    IN  IF file1.kind # "file" \/ file2.kind # "file" \/ fault.kind # "none"
        THEN [status |-> "failed", diffs |-> base, written |-> <<>>, tail |-> FALSE]
        ELSE [status |-> "ok", diffs |-> WriteFile(base, diffFile, output),
              written |-> output, tail |-> tail]

\* One iteration of the loop over records[1:].
ResolveRecord(name, fault) ==
    LET file1 == dirs[1][name]
        file2 == dirs[2][name]
        branch == Branch(file1.kind # "none", file2.kind # "none")
    IN  IF branch = "Diff"
        THEN LET r == generateDiff(file1, file2, DiffFileName(name), diffs,
                                   sizeLimit * MB, lineLimit, fault)
             IN  [status |-> r.status, diffs |-> r.diffs,
                  outcome |-> [name |-> name, kind |-> "Diff",
                               artifact |-> DiffFileName(name),
                               written |-> r.written, tail |-> r.tail]]
        ELSE LET r == copyFile(IF branch = "CopiedFromB" THEN file2 ELSE file1,
                               name, diffs, fault)
             IN  [status |-> r.status, diffs |-> r.diffs,
                  outcome |-> [name |-> name, kind |-> branch, artifact |-> name,
                               written |-> r.written, tail |-> FALSE]]

IoFaults == {NoFault} \cup (IF ioFaulty THEN {[kind |-> "io", at |-> 0]} ELSE {})

\* os.Open(diff.csv), ReadAll, MkdirAll(diffs)
CompareOpen ==
    /\ pc = "compare"
    /\ \E fault \in IoFaults :
          /\ records' = (IF fault.kind = "none" THEN Tail(diffCsv) ELSE <<>>)
          /\ log' = Append(log, Event("compare", <<>>, fault.kind = "none",
                                      fault.kind # "none"))
          /\ pc' = MainAfter("compare", IF fault.kind = "none" THEN "ok" ELSE "failed")
    /\ idx' = 1
    /\ diffCount' = 0
    /\ UNCHANGED <<dirs, baseNames, cacheFs, diffCsv, diffs, useCache, sizeLimit,
                   lineLimit, ioFaulty, checksums1, checksums2, summary, outcomes,
                   hashed, diffsAtStart, cacheAtStart, prev, edited, runs, edits>>

\* if err != nil { return 0, err }
LoopAfter(status) == MainAfter("resolve", status)

CompareStep ==
    /\ pc = "resolve"
    /\ idx <= Len(records)
    /\ \E fault \in IoFaults :
          LET name == records[idx][1]
              r == ResolveRecord(name, fault)
          IN  /\ diffs' = r.diffs
              /\ log' = Append(log, Event("resolve", name, r.status = "ok",
                                          fault.kind # "none"))
              /\ outcomes' = (IF r.status = "ok" THEN Append(outcomes, r.outcome)
                              ELSE outcomes)
              /\ diffCount' = (IF r.status = "ok" THEN diffCount + 1 ELSE diffCount)
              /\ pc' = LoopAfter(r.status)
    /\ idx' = idx + 1
    /\ UNCHANGED <<dirs, baseNames, cacheFs, diffCsv, useCache, sizeLimit, lineLimit,
                   ioFaulty, checksums1, checksums2, records, summary, hashed,
                   diffsAtStart, cacheAtStart, prev, edited, runs, edits>>

\* return diffCount, nil; main prints the summary line.
CompareReturn ==
    /\ pc = "resolve"
    /\ idx > Len(records)
    /\ summary' = diffCount
    /\ log' = Append(log, Event("summary", <<>>, TRUE, FALSE))
    /\ pc' = "done"
    /\ UNCHANGED <<dirs, baseNames, cacheFs, diffCsv, diffs, useCache, sizeLimit,
                   lineLimit, ioFaulty, checksums1, checksums2, records, idx,
                   diffCount, outcomes, hashed, diffsAtStart, cacheAtStart, prev,
                   edited, runs, edits>>

---------------------------------------------------------------------------
(* Inputs. *)

MakeDirs(pa, pd, pb) ==
    [s \in 1..2 |-> [n \in FileNames |->
        IF n = NameA THEN pa[s] ELSE IF n = NameADiff THEN pd[s] ELSE pb[s]]]

BasicPairs ==
    { <<NoEntry, NoEntry>>, <<File(Small1), File(Small1)>>,
      <<File(Small1), File(Small2)>>, <<File(Small1), NoEntry>>,
      <<NoEntry, File(Small1)>> }

WidePairs ==
    BasicPairs \cup
    { <<File(Small1), DirEntry>>, <<File(AtLimit1), File(AtLimit2)>>,
      <<File(Large1), File(Large2)>>, <<File(Small1), File(Large1)>> }

\* Snapshots an earlier invocation, an interrupted write or an editor may
\* have left at the place of a checksum csv file.
StaleSnapshot ==
    << <<NameA, fileChecksum(Small2)>>, <<NameB, fileChecksum(Small1)>> >>
Snapshots ==
    { StaleSnapshot,
      <<>>,
      << <<NameA>> >>,
      << <<NameA, fileChecksum(Small1)>>, <<NameB>> >>,
      << <<NameA, BadQuote>> >>,
      << <<NameA, fileChecksum(Small1), fileChecksum(Small1)>> >>,
      << <<NameA, 0>>, <<NameB, fileChecksum(Small1)>> >> }

InitWith(D, B, S, faulty, L) ==
    /\ dirs \in D
    /\ baseNames \in B
    /\ useCache \in BOOLEAN
    /\ cacheFs \in {NoFiles} \cup
                   {[f \in {"A"} |-> snap] :
                       snap \in IF useCache THEN S ELSE S \cap {StaleSnapshot}}
    /\ diffCsv = <<>>
    /\ diffs = NoFiles
    /\ sizeLimit = 1
    /\ lineLimit \in L
    /\ ioFaulty = faulty
    /\ pc = "build1"
    /\ checksums1 = <<>>
    /\ checksums2 = <<>>
    /\ records = <<>>
    /\ idx = 1
    /\ diffCount = 0
    /\ summary = 0 - 1
    /\ log = <<>>
    /\ outcomes = <<>>
    /\ hashed = {}
    /\ diffsAtStart = NoFiles
    /\ cacheAtStart = cacheFs
    /\ prev = [ok |-> FALSE, store1 |-> <<>>, store2 |-> <<>>]
    /\ edited = FALSE
    /\ runs = 1
    /\ edits = 0

\* One invocation, in an environment whose I/O may fail.
Init ==
    InitWith({MakeDirs(pa, pd, pb) : pa \in BasicPairs, pd \in BasicPairs, pb \in WidePairs},
             {<<"A", "B">>, <<"A", "A">>}, Snapshots, TRUE, {1, 3})

Next ==
    \/ GenerateChecksums1
    \/ GenerateChecksums2
    \/ GenerateCombinedCSV
    \/ CompareOpen
    \/ CompareStep
    \/ CompareReturn

Spec == Init /\ [][Next]_vars

\* One invocation on a fresh output directory, with reliable I/O.
InitFresh ==
    InitWith({MakeDirs(pa, pd, pb) : pa \in BasicPairs, pd \in BasicPairs, pb \in WidePairs},
             {<<"A", "B">>}, {}, FALSE, {1, 3})

SpecFresh == InitFresh /\ [][Next]_vars

---------------------------------------------------------------------------
(* Successive invocations against the same output directory, with the     *)
(* source directories edited in between.                                   *)

Ended == pc \in {"done", "failed", "crashed"}

BuiltBoth == \E i \in 1..Len(log) : log[i].stage = "build2" /\ log[i].ok

Rerun ==
    /\ Ended
    /\ runs < MaxRuns
    /\ runs' = runs + 1
    /\ useCache' \in BOOLEAN
    /\ prev' = [ok |-> BuiltBoth /\ ~useCache /\ ~edited,
                store1 |-> checksums1, store2 |-> checksums2]
    /\ edited' = FALSE
    /\ pc' = "build1"
    /\ checksums1' = <<>>
    /\ checksums2' = <<>>
    /\ records' = <<>>
    /\ idx' = 1
    /\ diffCount' = 0
    /\ summary' = 0 - 1
    /\ log' = <<>>
    /\ outcomes' = <<>>
    /\ hashed' = {}
    /\ diffsAtStart' = diffs
    /\ cacheAtStart' = cacheFs
    /\ UNCHANGED <<dirs, baseNames, cacheFs, diffCsv, diffs, sizeLimit, lineLimit,
                   ioFaulty, edits>>

EditEntries == {NoEntry, File(Small1), File(Small2)}

\* The user creates, rewrites or deletes one file of a source directory.
EditFile ==
    /\ Ended
    /\ runs < MaxRuns
    /\ edits < MaxEdits
    /\ \E s \in 1..2, n \in FileNames, e \in EditEntries :
          /\ dirs[s][n] # e
          /\ dirs' = [dirs EXCEPT ![s][n] = e]
    /\ edited' = TRUE
    /\ edits' = edits + 1
    /\ UNCHANGED <<baseNames, cacheFs, diffCsv, diffs, useCache, sizeLimit, lineLimit,
                   ioFaulty, pc, checksums1, checksums2, records, idx, diffCount,
                   summary, log, outcomes, hashed, diffsAtStart, cacheAtStart, prev,
                   runs>>

InitRerun ==
    InitWith({MakeDirs(pa, <<NoEntry, NoEntry>>, pb) :
                 pa \in BasicPairs, pb \in BasicPairs}
             \cup {MakeDirs(pa, <<File(Small1), NoEntry>>, <<NoEntry, NoEntry>>) :
                      pa \in BasicPairs},
             {<<"A", "B">>, <<"A", "A">>}, {}, FALSE, {1})

NextRerun == Next \/ Rerun \/ EditFile

SpecRerun == InitRerun /\ [][NextRerun]_vars

---------------------------------------------------------------------------
(* Properties. *)

StageOk(stage) == \E i \in 1..Len(log) : log[i].stage = stage /\ log[i].ok

RowSet(rows) == {rows[i] : i \in 1..Len(rows)}

\* "a" < "a.diff" < "b" in byte-wise order.
Rank(n) == CASE n = NameA -> 1 [] n = NameADiff -> 2 [] n = NameB -> 3

\* The store a build of directory s from scratch returns.
FreshStore(s) ==
    [n \in {m \in FileNames : dirs[s][m].kind = "file"} |->
        fileChecksum(dirs[s][n].content)]

\* C1: once generateCombinedCSV has returned without error, the rows after
\* the header are exactly the (name, digestA, digestB) triples of the names of
\* the union of the two key sets whose digests differ, a missing key counting
\* as the empty digest; each name has one row and no row has two equal
\* non-empty digests.
C1_RowsAreTheDifferingNames ==
    StageOk("reconcile") =>
        LET rows == Tail(diffCsv)
            union == DOMAIN checksums1 \cup DOMAIN checksums2
            digest(store, n) == IF n \in DOMAIN store THEN store[n] ELSE 0
            expected == {<<n, digest(checksums1, n), digest(checksums2, n)>> :
                            n \in {m \in union :
                                      digest(checksums1, m) # digest(checksums2, m)}}
        IN  /\ RowSet(rows) = expected
            /\ Len(rows) = Cardinality(expected)
            /\ \A i \in 1..Len(rows) :
                  ~(rows[i][2] # 0 /\ rows[i][3] # 0 /\ rows[i][2] = rows[i][3])

\* A reconciliation of three names: one equal on both sides (no row), one
\* different on both sides and one present on one side only.
C1_Witness ==
    /\ StageOk("reconcile")
    /\ Cardinality(DOMAIN checksums1 \cup DOMAIN checksums2) = 3
    /\ Len(diffCsv) = 3
    /\ \E i \in 2..3 : diffCsv[i][2] # 0 /\ diffCsv[i][3] # 0
    /\ \E i \in 2..3 : diffCsv[i][2] = 0 \/ diffCsv[i][3] = 0

\* C8: the rows generateCombinedCSV wrote are in strictly increasing
\* byte-wise order of file name, whatever the enumeration order of the maps.
C8_RowsStrictlySorted ==
    StageOk("reconcile") =>
        \A i, j \in 2..Len(diffCsv) :
            i < j => Rank(diffCsv[i][1]) < Rank(diffCsv[j][1])

\* All three names have a row.
C8_Witness == StageOk("reconcile") /\ Len(diffCsv) = 4

\* C3: a record whose path exists on exactly one side, as a file, is
\* resolved (unless the environment fails the copy) by copying that side's
\* file to diffs/<fileName>; the artifact holds the source's bytes, and the
\* record writes no .diff artifact.
C3_OneSidedRecordIsCopied ==
    \A i \in 1..Len(log) :
        LET e == log[i]
            n == e.name
            onlyA == dirs[1][n].kind = "file" /\ dirs[2][n].kind = "none"
            onlyB == dirs[1][n].kind = "none" /\ dirs[2][n].kind = "file"
            src == IF onlyA THEN dirs[1][n].content ELSE dirs[2][n].content
        IN  (e.stage = "resolve" /\ (onlyA \/ onlyB) /\ ~e.injected) =>
                /\ e.ok
                /\ Cardinality({k \in 1..Len(outcomes) : outcomes[k].name = n}) = 1
                /\ \A k \in 1..Len(outcomes) :
                      outcomes[k].name = n =>
                          /\ outcomes[k].kind = (IF onlyA THEN "CopiedFromA"
                                                 ELSE "CopiedFromB")
                          /\ outcomes[k].artifact = n
                          /\ outcomes[k].written = src
                /\ n \in DOMAIN diffs
                /\ diffs[n] = src

\* A finished run that copied one file from each side.
C3_Witness ==
    /\ pc = "done"
    /\ \E k \in 1..Len(outcomes) :
          outcomes[k].kind = "CopiedFromA" /\ diffs[outcomes[k].name] = Small1
    /\ \E k \in 1..Len(outcomes) : outcomes[k].kind = "CopiedFromB"

\* C9: generateDiff compares the last lineLimit lines of both files exactly
\* when one of the two sizes is over sizeLimit MB, and the whole contents
\* otherwise; so a pair over the limit with equal tails and different
\* digests gets an empty diff artifact and is still listed and counted.
C9_TailIffOverLimit ==
    \A k \in 1..Len(outcomes) :
        LET o == outcomes[k]
            c1 == dirs[1][o.name].content
            c2 == dirs[2][o.name].content
            over == FileSize(c1) > sizeLimit * 1048576
                       \/ FileSize(c2) > sizeLimit * 1048576
            last(c) == [i \in 1..Min(lineLimit, Len(c)) |->
                           c[Len(c) - Min(lineLimit, Len(c)) + i]]
        IN  o.kind = "Diff" =>
                /\ o.tail = over
                /\ (o.written = <<>>) = (IF over THEN last(c1) = last(c2) ELSE c1 = c2)
                /\ \E i \in 1..Len(records) : records[i][1] = o.name
                /\ diffCount >= k

\* Two files over the limit that differ only before their last line: the
\* record is listed, counted, and its artifact is empty.
C9_Witness ==
    /\ pc = "done"
    /\ lineLimit = 1
    /\ dirs[1][NameB].content = Large1
    /\ dirs[2][NameB].content = Large2
    /\ \E k \in 1..Len(outcomes) :
          /\ outcomes[k].name = NameB
          /\ outcomes[k].tail
          /\ outcomes[k].written = <<>>
    /\ summary = Len(records)
    /\ DiffFileName(NameB) \in DOMAIN diffs
    /\ diffs[DiffFileName(NameB)] = <<>>

C5_OneArtifactPerRecord ==
    pc = "done" =>
        /\ Len(outcomes) = Len(records)
        /\ summary = Len(records)
        /\ \A i \in 1..Len(outcomes) : outcomes[i].name = records[i][1]
        /\ \A i, j \in 1..Len(outcomes) :
              i # j => outcomes[i].artifact # outcomes[j].artifact

\* A snapshot that is not a list of fileName,digest rows.
Malformed(rows) == ParseError(rows) \/ \E i \in 1..Len(rows) : Len(rows[i]) # 2

\* C6: a build with useCache over a malformed snapshot does not crash or
\* fail because of it, and returns the store of a build from scratch.
C6_CorruptCacheRecovered ==
    (/\ Len(log) > 0
     /\ useCache
     /\ CsvFile(1) \in DOMAIN cacheAtStart
     /\ Malformed(cacheAtStart[CsvFile(1)])) =>
        /\ log[1].ok \/ log[1].injected
        /\ log[1].ok => checksums1 = FreshStore(1)

\* C10: when a run without useCache has completed both builds, each
\* checksum csv file holds exactly the rows of the store of its side, one
\* per top-level file of the directory.
C10_SnapshotsMatchStores ==
    (~useCache /\ ~edited /\ StageOk("build2")) =>
        \A s \in 1..2 :
            LET rows == IF CsvFile(s) \in DOMAIN cacheFs THEN cacheFs[CsvFile(s)]
                        ELSE <<>>
                store == IF s = 1 THEN checksums1 ELSE checksums2
            IN  /\ RowSet(rows) = {<<n, store[n]>> : n \in DOMAIN store}
                /\ Len(rows) = Cardinality({n \in FileNames : dirs[s][n].kind = "file"})

\* C4: a run with useCache after a run without it that built both stores,
\* the directories unchanged in between, loads for each side the store the
\* first run built for that side, and reads no source file.
C4_CacheRoundTrip ==
    (prev.ok /\ useCache /\ StageOk("build2")) =>
        /\ checksums1 = prev.store1
        /\ checksums2 = prev.store2
        /\ hashed = {}

\* C4 and C10 where the two directories have different base names.
C4_RoundTripWithDistinctBaseNames ==
    baseNames[1] # baseNames[2] => C4_CacheRoundTrip

C10_SnapshotsWithDistinctBaseNames ==
    baseNames[1] # baseNames[2] => C10_SnapshotsMatchStores

\* C2 as stated: identical directories leave an empty record set and an
\* empty diffs/ after any successful run.
C2_IdenticalDirsLeaveNothing ==
    (dirs[1] = dirs[2] /\ ~edited /\ pc = "done") =>
        /\ Tail(diffCsv) = <<>>
        /\ DOMAIN diffs = {}

\* C2, amended: identical directories, after a successful run without
\* useCache: diff.csv holds only the header, the count is 0, and the run
\* wrote no artifact, so diffs/ holds what it held before the run.
C2_IdenticalDirsFreshBuild ==
    (dirs[1] = dirs[2] /\ ~edited /\ pc = "done" /\ ~useCache) =>
        /\ Tail(diffCsv) = <<>>
        /\ outcomes = <<>>
        /\ summary = 0
        /\ diffs = diffsAtStart

\* A second run without useCache on directories made identical, which hold
\* a file; the first run's artifact is still there.
C2_Witness ==
    /\ dirs[1] = dirs[2]
    /\ ~edited
    /\ \E n \in FileNames : dirs[1][n].kind = "file"
    /\ pc = "done"
    /\ ~useCache
    /\ runs = 2
    /\ DOMAIN diffs # {}

====
